---- MODULE Spec2Model ----
(***************************************************************************)
(* A model of lib/imagec/imagec.go (package imagec of vic): the image-pull *)
(* orchestration engine.  One specification per operation of the file:     *)
(*   SpecConfig  - ImageC.CreateImageConfig, invoked twice                 *)
(*   SpecLayers  - ImageC.LayersToDownload over manifests and layer caches *)
(*   SpecPull    - ImageC.PullImage, the sequential phase machine          *)
(*   SpecRepo    - updateRepositoryCache run by two concurrent pulls       *)
(*   SpecDest    - DestinationDirectory, invoked twice                     *)
(*   SpecBlob    - layer downloads and ImageC.WriteImageBlob calls         *)
(*   SpecRef     - ImageC.ParseReference on its own, invoked twice         *)
(*   SpecLdm     - ldm.DownloadLayers called by two concurrent pulls       *)
(***************************************************************************)
EXTENDS Integers, Sequences, FiniteSets, TLC

\* ------------------------------------------------------------------ bounds
\* longest layer chain handed to CreateImageConfig
MaxLayers == 2
\* longest schema-v1 manifest (history entries / blob sums)
MaxHistory == 2

\* ------------------------------------------------------------------- state
VARIABLES
  repoLayers,  \* cache.RepositoryCache(): layer ID -> image ID
  imageCache,  \* cache.ImageCache(): image ID -> image configuration
  cfgCalls,    \* the CreateImageConfig invocations made so far: receiver,
               \* argument and return value of each
  layerCache,  \* LayerCache(): layer ID -> *ImageWithMeta
  ltdCalls,    \* the LayersToDownload invocations made so far: receiver and
               \* return value of each
  pc,          \* PullImage: the call it is about to make, or "done"
  pullIC,      \* PullImage: the receiver *ImageC (Options and ImageLayers)
  url,         \* PullImage: the local url, the OAuth endpoint ("" is nil)
  ret,         \* PullImage: whether it returned, the error, or that it panicked
  expired,     \* PullImage: whether the deadline of ctx has passed
  phaseLog,    \* PullImage: the phases run so far and how each collaborator answered
  netLog,      \* PullImage: the network calls made, each with the context it
               \* was handed and whether it went out after the deadline
  repoRefs,    \* cache.RepositoryCache(): reference string -> image ID
  urc,         \* updateRepositoryCache: for each pull running it, its position,
               \* its *ImageC, the error returned and what it did so far
  destCalls,   \* the DestinationDirectory invocations made so far: the options
               \* and the path returned
  refCalls,    \* the stand-alone ParseReference invocations made so far: the
               \* reference and the receiver afterwards
  disk,        \* the layer tars on the local disk: <<directory, layer ID>> for
               \* the file directory/ID/ID.tar
  wiped,       \* history: for each (Destination, Registry, Image, Tag) whose
               \* directory a WriteImageBlob has removed, the call that did it
               \* last and the layers downloaded for it since
  blobLast,    \* the last download or WriteImageBlob call: its arguments, what
               \* it returned and the disk it found
  flights,     \* LayerDownloader: the layer fetches in flight, each with the
               \* coordinator running it, its layer and its number
  fetchCount,  \* the number of fetches started so far, per layer
  stored,      \* the layers materialized in the layer cache
  dl           \* DownloadLayers: for each pull, where its call stands, the
               \* coordinator it went through, the flights it waits on and the
               \* results it has observed

cfgVars == <<repoLayers, imageCache, cfgCalls>>
ltdVars == <<layerCache, ltdCalls>>
pullVars == <<pc, pullIC, url, ret, expired, phaseLog, netLog>>
repoVars == <<repoRefs, urc>>
blobVars == <<disk, wiped, blobLast>>
ldmVars == <<flights, fetchCount, stored, dl>>
auxVars == <<destCalls, refCalls, disk, wiped, blobLast, flights, fetchCount, stored, dl>>
vars == <<repoLayers, imageCache, cfgCalls, layerCache, ltdCalls,
          pc, pullIC, url, ret, expired, phaseLog, netLog, repoRefs, urc,
          destCalls, refCalls, disk, wiped, blobLast,
          flights, fetchCount, stored, dl>>

\* The variables of PullImage while no pull is modelled.
NoPull ==
  /\ pc = "idle" /\ pullIC = <<>> /\ url = "" /\ ret = <<>>
  /\ expired = FALSE /\ phaseLog = <<>> /\ netLog = <<>>

\* The variables of updateRepositoryCache while no call of it is modelled.
NoRepo == repoRefs = <<>> /\ urc = <<>>

\* The variables of the stand-alone helpers while none of them is modelled.
NoBlob == disk = {} /\ wiped = <<>> /\ blobLast = <<>>
NoLdm == flights = {} /\ fetchCount = <<>> /\ stored = {} /\ dl = <<>>
NoAux == destCalls = <<>> /\ refCalls = <<>> /\ NoBlob /\ NoLdm

\* ------------------------------------------------------- docker.V1Image
\* The fields of docker.V1Image that imagec.go reads.
Fields ==
  {"id", "parent", "comment", "created", "container", "container_config",
   "docker_version", "author", "config", "architecture", "os"}

\* The zero value docker.V1Image{}: empty strings, a nil Cmd.
ZeroV1 ==
  [f \in Fields |-> IF f = "container_config" THEN <<>> ELSE ""]

\* A per-layer configuration document (the JSON text of V1Compatibility / Meta)
\* is modelled by what it decodes to: for each field either << >> (the key is
\* absent from the JSON) or <<v>> (the key is present with value v); valid is
\* FALSE for a text that does not deserialize.
NoKeys == [f \in Fields |-> <<>>]

JSONDoc(keys) ==
  [valid |-> TRUE, doc |-> [f \in Fields |-> IF f \in DOMAIN keys THEN <<keys[f]>> ELSE <<>>]]

BadJSON == [valid |-> FALSE, doc |-> NoKeys]

\* json.Unmarshal(text, &v1) on a struct that is reused: a key that the text
\* does not carry leaves the struct's field as it was.
Unmarshal(meta, v1) ==
  [f \in Fields |-> IF meta.doc[f] = <<>> THEN v1[f] ELSE meta.doc[f][1]]

\* strings.Join(cmd, " ")
RECURSIVE Join(_)
Join(cmd) ==
  IF cmd = <<>> THEN ""
  ELSE IF Len(cmd) = 1 THEN cmd[1]
  ELSE cmd[1] \o " " \o Join(Tail(cmd))

\* dockerLayer.DigestSHA256EmptyTar.String()
DigestSHA256EmptyTar == "sha256:emptytar"

\* ------------------------------------------------ CreateImageConfig
\* An image ID is the tagged digest <<"sha256", ...>> (see Sum256); the empty
\* string that stands for "no image ID" is the empty tuple.
EmptyID == <<>>

\* cache.RepositoryCache().GetImageID(layerID): "" when the layer is unknown.
GetImageID(layers, layerID) ==
  IF layerID \in DOMAIN layers THEN layers[layerID] ELSE EmptyID

\* A slip of lines 391-397: the diff ID is appended for an empty layer too.
WalkLayerEveryDiffID(acc, layer) ==
  IF ~layer.Meta.valid
  THEN [acc EXCEPT !.err = "Failed to unmarshall layer history"]
  ELSE LET image == Unmarshal(layer.Meta, acc.image)
       IN  [acc EXCEPT !.image = image,
                       !.diffIDs = Append(@, layer.DiffID),
                       !.history = Append(@, [Created    |-> image["created"],
                                              Author     |-> image["author"],
                                              CreatedBy  |-> Join(image["container_config"]),
                                              Comment    |-> image["comment"],
                                              EmptyLayer |-> layer.DiffID = DigestSHA256EmptyTar]),
                       !.size = @ + layer.Size]

\* One step of the loop "for i := len(images) - 1; i >= 0; i--" (1-based here):
\* acc carries the locals image, rootFS.DiffIDs, history, size and the error.
WalkLayer(acc, layer) ==
  IF ~layer.Meta.valid
  THEN [acc EXCEPT !.err = "Failed to unmarshall layer history"]
  ELSE LET image == Unmarshal(layer.Meta, acc.image)
           empty == layer.DiffID = DigestSHA256EmptyTar
           h == [Created    |-> image["created"],
                 Author     |-> image["author"],
                 CreatedBy  |-> Join(image["container_config"]),
                 Comment    |-> image["comment"],
                 EmptyLayer |-> empty]
       IN  [acc EXCEPT !.image = image,
                       !.diffIDs = IF empty THEN @ ELSE Append(@, layer.DiffID),
                       !.history = Append(@, h),
                       !.size = @ + layer.Size]

RECURSIVE Walk(_, _, _)
Walk(images, i, acc) ==
  IF i = 0 \/ acc.err # "" THEN acc
  ELSE Walk(images, i - 1, WalkLayer(acc, images[i]))

\* docker.Image.MarshalJSON: the JSON object of the document, keys sorted; a
\* JSON object is its set of key/value pairs, keys with an empty value left
\* out (omitempty) except "created", "rootfs" and "history".
MarshalJSON(img) ==
  {<<f, img.V1Image[f]>> : f \in {g \in Fields : g = "created" \/ img.V1Image[g] # ZeroV1[g]}}
    \cup {<<"rootfs", <<"layers", img.RootFS>>>>, <<"history", img.History>>}
    \cup (IF img.Size = 0 THEN {} ELSE {<<"size", img.Size>>})

\* fmt.Sprintf("%x", sha256.Sum256(bytes)): a hash is modelled collision-free,
\* as the tagged bytes themselves.
Sum256(bytes) == <<"sha256", bytes>>

\* A slip the hash must not survive: the literal also takes the summed size.
ResultImageSized(acc) ==
  [V1Image |-> [f \in Fields |-> IF f \in {"id", "parent"} THEN "" ELSE acc.image[f]],
   RootFS  |-> acc.diffIDs,
   History |-> acc.history,
   Size    |-> acc.size]

\* The docker.Image literal "result": the listed fields of the last decoded
\* struct, the diff IDs and the history; ID, Parent and Size are left zero.
ResultImage(acc) ==
  [V1Image |-> [f \in Fields |-> IF f \in {"id", "parent"} THEN "" ELSE acc.image[f]],
   RootFS  |-> acc.diffIDs,
   History |-> acc.history,
   Size    |-> 0]

\* ImageC.CreateImageConfig(images) with the caches it reads.  hashed is the
\* document whose serialization is hashed (a local of the function, kept for
\* the properties about it).
CreateImageConfig(ic, images, layers, icache) ==
  LET imageLayer == images[1]
      id == GetImageID(layers, imageLayer.ID)
  IN  IF id \in DOMAIN icache
      THEN [err |-> "", cached |-> TRUE, config |-> icache[id], hashed |-> <<>>]
      ELSE LET acc == Walk(images, Len(images),
                           [image |-> ZeroV1, diffIDs |-> <<>>, history |-> <<>>,
                            size |-> 0, err |-> ""])
               result == ResultImage(acc)
               sum == Sum256(MarshalJSON(result))
           IN  IF acc.err # ""
               THEN [err |-> acc.err, cached |-> FALSE, config |-> <<>>, hashed |-> <<>>]
               ELSE [err |-> "", cached |-> FALSE, hashed |-> result,
                     config |->
                       [V1Image   |-> [result.V1Image EXCEPT
                                         !["parent"] = acc.image["parent"],
                                         !["id"] = imageLayer.ID],
                        ImageID   |-> sum,
                        Size      |-> acc.size,
                        Digests   |-> <<ic.ManifestDigest>>,
                        Tags      |-> <<ic.Tag>>,
                        Name      |-> ic.ImageManifestSchema1.Name,
                        DiffIDs   |-> <<>>,
                        History   |-> acc.history,
                        Reference |-> ic.Reference]]

\* --------------------------------------------- SpecConfig: the invocations
\* Per-layer configuration documents the chains are drawn from: a root layer,
\* a child that leaves author and comment out, and a text that is not JSON.
MetaA ==
  JSONDoc([id |-> "idA", created |-> "t1", author |-> "alice", comment |-> "base",
           container_config |-> <<"sh", "-c">>, architecture |-> "amd64",
           os |-> "linux"])

MetaB ==
  JSONDoc([id |-> "idB", parent |-> "idA", created |-> "t2",
           container_config |-> <<"run">>, docker_version |-> "1.12"])

ConfigMetas == {MetaA, MetaB, BadJSON}

\* Two receivers that differ in every option CreateImageConfig can see.
ConfigIC(v) ==
  [Reference |-> IF v = 1 THEN "busybox:latest" ELSE "reg.example.com:5000/busybox:v2",
   Tag |-> IF v = 1 THEN "latest" ELSE "v2",
   ManifestDigest |-> IF v = 1 THEN "sha256:m1" ELSE "sha256:m2",
   Host |-> IF v = 1 THEN "localhost:2377" ELSE "10.0.0.1:2377",
   Storename |-> IF v = 1 THEN "store1" ELSE "store2",
   ImageManifestSchema1 |-> [Name |-> "library/busybox"]]

\* An ImageWithMeta at position i of a chain: the layer ID is the document's
\* (any ID for a text that does not decode), the diff ID is the empty-layer
\* digest or one of its own, and variant v sets the fields of the record that
\* are not content: Store, Size and Downloading.
ConfigLayer(meta, nonEmpty, i, v) ==
  [ID |-> IF meta.valid /\ meta.doc["id"] # <<>> THEN meta.doc["id"][1] ELSE "idX",
   Parent |-> IF meta.valid /\ meta.doc["parent"] # <<>> THEN meta.doc["parent"][1] ELSE "scratch",
   Store |-> IF v = 1 THEN "store1" ELSE "store2",
   DiffID |-> IF nonEmpty THEN "sha256:diff" \o ToString(i) ELSE DigestSHA256EmptyTar,
   Layer |-> [BlobSum |-> "sha256:blob" \o ToString(i)],
   Meta |-> meta,
   Size |-> v * i,
   Downloading |-> (v = 2)]

ConfigChains(v) ==
  UNION {{[i \in 1..n |-> ConfigLayer(c[i][1], c[i][2], i, v)] :
            c \in [1..n -> ConfigMetas \X BOOLEAN]} : n \in 1..MaxLayers}

\* A configuration already in the image cache, for the layer "idA".
CachedConfig ==
  [V1Image |-> ZeroV1, ImageID |-> Sum256({<<"comment", "cached">>}), Size |-> 0,
   Digests |-> <<>>, Tags |-> <<>>, Name |-> "library/busybox", DiffIDs |-> <<>>,
   History |-> <<>>, Reference |-> "busybox:latest"]

InitConfig ==
  /\ cfgCalls = <<>>
  /\ layerCache = <<>> /\ ltdCalls = <<>>
  /\ NoPull /\ NoRepo /\ NoAux
  /\ \E warm \in BOOLEAN :
       /\ repoLayers = IF warm THEN [l \in {"idA"} |-> CachedConfig.ImageID]
                       ELSE [l \in {} |-> EmptyID]
       /\ imageCache = IF warm THEN [k \in {CachedConfig.ImageID} |-> CachedConfig]
                       ELSE [k \in {} |-> CachedConfig]

\* One invocation ic.CreateImageConfig(images); it changes no cache.
CfgInvoke ==
  /\ Len(cfgCalls) < 2
  /\ \E v \in 1..2 : \E images \in ConfigChains(v) :
       cfgCalls' = Append(cfgCalls,
                          [ic |-> ConfigIC(v), images |-> images,
                           ret |-> CreateImageConfig(ConfigIC(v), images,
                                                     repoLayers, imageCache)])
  /\ UNCHANGED <<repoLayers, imageCache>>
  /\ UNCHANGED ltdVars
  /\ UNCHANGED <<pullVars, repoVars, auxVars>>

NextConfig == CfgInvoke

SpecConfig == InitConfig /\ [][NextConfig]_vars

\* The content of a chain: its ordered (Meta, DiffID) pairs.
ChainContent(images) == [i \in DOMAIN images |-> <<images[i].Meta, images[i].DiffID>>]

\* C1: two invocations of CreateImageConfig that both miss the image cache and
\* whose chains carry the same ordered (Meta, DiffID) pairs return the same
\* ImageID (and fail alike), whatever the receivers' Host, Storename,
\* Reference, Tag and ManifestDigest and the layers' Downloading, Size, Store.
C1_SameContentSameImageID ==
  \A p, q \in DOMAIN cfgCalls :
    (/\ ~cfgCalls[p].ret.cached
     /\ ~cfgCalls[q].ret.cached
     /\ ChainContent(cfgCalls[p].images) = ChainContent(cfgCalls[q].images))
    => /\ cfgCalls[p].ret.err = cfgCalls[q].ret.err
       /\ cfgCalls[p].ret.err = "" =>
            cfgCalls[p].ret.config.ImageID = cfgCalls[q].ret.config.ImageID

\* C1 witness: two cache-missing invocations on two-layer chains of the same
\* content, from receivers and layers that differ in every ignored field, both
\* returning an image ID.
C1_Witness ==
  /\ Len(cfgCalls) = 2
  /\ cfgCalls[1].ic.Tag # cfgCalls[2].ic.Tag
  /\ cfgCalls[1].ic.Storename # cfgCalls[2].ic.Storename
  /\ cfgCalls[1].images[1].Downloading # cfgCalls[2].images[1].Downloading
  /\ cfgCalls[1].images[1].Size # cfgCalls[2].images[1].Size
  /\ Len(cfgCalls[1].images) = 2
  /\ ChainContent(cfgCalls[1].images) = ChainContent(cfgCalls[2].images)
  /\ ~cfgCalls[1].ret.cached /\ ~cfgCalls[2].ret.cached
  /\ cfgCalls[1].ret.err = "" /\ cfgCalls[2].ret.err = ""
  /\ cfgCalls[1].ret.config.ImageID = cfgCalls[2].ret.config.ImageID

\* ------------------------------------------------- LayersToDownload
\* A nil *ImageWithMeta: a slot of make([]*ImageWithMeta, n) never assigned.
NilImage == [nil |-> TRUE]

\* Lines 241-245 with the parent taken as decoded, the sentinel forgotten.
LtdParentRaw(v1) == v1["parent"]

\* Lines 241-245: the parent of the record, "scratch" if the decoded one is empty.
LtdParent(v1) == IF v1["parent"] # "" THEN v1["parent"] ELSE "scratch"

\* One pass of the loop body for index i (1-based): acc carries the struct v1
\* that every pass decodes into, the slice images, the error and whether an
\* index ran out of range.
LtdStep(ic, lcache, i, acc) ==
  LET manifest == ic.ImageManifestSchema1 IN
  IF i > Len(manifest.FSLayers)
  THEN [acc EXCEPT !.panic = TRUE]
  ELSE
    LET history == manifest.History[i]
        layer == manifest.FSLayers[i]
    IN
    IF ~history.valid
    THEN [acc EXCEPT !.err = "Failed to unmarshall image history"]
    ELSE
      LET v1 == Unmarshal(history, acc.v1)
          fresh == [ID |-> v1["id"], Parent |-> LtdParent(v1), Store |-> ic.Storename,
                    DiffID |-> "", Layer |-> layer, Meta |-> history, Size |-> 0,
                    Downloading |-> FALSE]
          hit == fresh.ID \in DOMAIN lcache /\ ~lcache[fresh.ID].Downloading
      IN  [acc EXCEPT !.v1 = v1,
                      !.images[i] = IF hit THEN lcache[fresh.ID] ELSE fresh]

RECURSIVE LtdLoop(_, _, _, _)
LtdLoop(ic, lcache, i, acc) ==
  IF i = 0 \/ acc.err # "" \/ acc.panic THEN acc
  ELSE LtdLoop(ic, lcache, i - 1, LtdStep(ic, lcache, i, acc))

\* ImageC.LayersToDownload() with the layer cache it reads: the slice and the
\* error it returns, or panic when it indexes FSLayers out of range.
LayersToDownload(ic, lcache) ==
  LET manifest == ic.ImageManifestSchema1
      acc == LtdLoop(ic, lcache, Len(manifest.History),
                     [v1 |-> ZeroV1,
                      images |-> [i \in 1..Len(manifest.FSLayers) |-> NilImage],
                      err |-> "", panic |-> FALSE])
  IN  IF acc.panic THEN [images |-> <<>>, err |-> "", panic |-> TRUE]
      ELSE IF acc.err # "" THEN [images |-> <<>>, err |-> acc.err, panic |-> FALSE]
      ELSE [images |-> acc.images, err |-> "", panic |-> FALSE]

\* --------------------------------------------- SpecLayers: the invocations
\* History documents beside MetaA (a root: no parent key) and MetaB (its
\* child): one that names its own child as parent, and one whose parent key
\* is present and empty.
MetaCycle == JSONDoc([id |-> "idA", parent |-> "idB", created |-> "t3"])

MetaEmptyParent == JSONDoc([id |-> "idC", parent |-> "", created |-> "t4"])

\* A history document that states neither id nor parent.
MetaBare == JSONDoc([created |-> "t5", author |-> "bob"])

HistoryMetas == {MetaA, MetaB, MetaCycle, MetaEmptyParent, MetaBare, BadJSON}

\* The schema-v1 manifests: up to MaxHistory {history entry, blob sum} pairs.
Manifests ==
  UNION {{[Name |-> "library/busybox",
           History |-> h,
           FSLayers |-> [i \in 1..n |-> [BlobSum |-> "sha256:blob" \o ToString(i)]]] :
            h \in [1..n -> HistoryMetas]} :
         n \in 0..MaxHistory}

\* A record a previous pull left in the layer cache.
CachedLayer(id, parent, meta, downloading) ==
  [ID |-> id, Parent |-> parent, Store |-> "store0", DiffID |-> "sha256:diff" \o id,
   Layer |-> [BlobSum |-> "sha256:blob" \o id], Meta |-> meta, Size |-> 10,
   Downloading |-> downloading]

LayerCaches ==
  { <<>>,
    [l \in {"idA"} |-> CachedLayer("idA", "scratch", MetaA, FALSE)],
    [l \in {"idA"} |-> CachedLayer("idA", "scratch", MetaA, TRUE)],
    [l \in {"idB"} |-> CachedLayer("idB", "idA", MetaB, FALSE)],
    [l \in {"idB"} |-> CachedLayer("idB", "idZ", MetaB, FALSE)] }

LayersIC(manifest) ==
  [ConfigIC(1) EXCEPT !.ImageManifestSchema1 = manifest]

InitLayers ==
  /\ layerCache \in LayerCaches
  /\ ltdCalls = <<>>
  /\ repoLayers = <<>> /\ imageCache = <<>> /\ cfgCalls = <<>>
  /\ NoPull /\ NoRepo /\ NoAux

\* One invocation ic.LayersToDownload(); it reads the layer cache only.
LtdInvoke ==
  /\ Len(ltdCalls) < 1
  /\ \E manifest \in Manifests :
       ltdCalls' = Append(ltdCalls,
                          [ic |-> LayersIC(manifest),
                           ret |-> LayersToDownload(LayersIC(manifest), layerCache)])
  /\ UNCHANGED layerCache
  /\ UNCHANGED cfgVars
  /\ UNCHANGED <<pullVars, repoVars, auxVars>>

NextLayers == LtdInvoke

SpecLayers == InitLayers /\ [][NextLayers]_vars

\* Whether every history entry of the manifest deserializes.
AllDeserialize(manifest) ==
  \A i \in DOMAIN manifest.History : manifest.History[i].valid

\* Record rec is index-aligned with entry i: a fresh record carrying the
\* entry's configuration text and blob descriptor, or a record of the layer
\* cache that is not mid-download, taken in its place.
AlignedWith(rec, manifest, i, lcache) ==
  \/ /\ rec.Meta = manifest.History[i]
     /\ rec.Layer = manifest.FSLayers[i]
  \/ \E id \in DOMAIN lcache : rec = lcache[id] /\ ~lcache[id].Downloading

\* Following Parent from rec reaches "scratch" in at most hops hops, each hop
\* going to a returned record whose ID is the Parent.
RECURSIVE ReachesScratch(_, _, _)
ReachesScratch(images, rec, hops) ==
  /\ hops >= 1
  /\ \/ rec.Parent = "scratch"
     \/ \E j \in DOMAIN images :
          images[j].ID = rec.Parent /\ ReachesScratch(images, images[j], hops - 1)

\* The manifest is a chain: every entry states its own id, the ids differ,
\* every entry but the last states the next (older) entry's id as its parent
\* and the last states no parent or an empty one.
ProperChain(manifest) ==
  LET h == manifest.History
      n == Len(h)
  IN  /\ \A i \in 1..n : h[i].valid /\ h[i].doc["id"] # <<>> /\ h[i].doc["id"] # <<"">>
      /\ \A i, j \in 1..n : i # j => h[i].doc["id"] # h[j].doc["id"]
      /\ \A i \in 1..(n - 1) : h[i].doc["parent"] = h[i + 1].doc["id"]
      /\ n >= 1 => h[n].doc["parent"] \in {<<>>, <<"">>}

\* Every layer-cache record that can stand in for an entry of the manifest has
\* the parent that entry states.
CacheAgrees(manifest, lcache) ==
  \A i \in DOMAIN manifest.History : \A id \in DOMAIN lcache :
    (manifest.History[i].doc["id"] = <<id>> /\ ~lcache[id].Downloading)
      => lcache[id].Parent = (IF manifest.History[i].doc["parent"] \in {<<>>, <<"">>}
                              THEN "scratch" ELSE manifest.History[i].doc["parent"][1])

\* Exactly n non-nil records, record i aligned with manifest entry i.
ReturnsAligned(call, n) ==
  /\ ~call.ret.panic
  /\ call.ret.err = ""
  /\ Len(call.ret.images) = n
  /\ \A i \in 1..n :
       /\ call.ret.images[i] # NilImage
       /\ AlignedWith(call.ret.images[i], call.ic.ImageManifestSchema1, i, layerCache)

\* C10 as stated: for every schema-v1 manifest with N history entries that all
\* deserialize, LayersToDownload returns exactly N non-nil records, record i
\* built from manifest entry i, and following Parent from any returned record
\* reaches "scratch" in at most N hops.
C10_Original ==
  \A c \in DOMAIN ltdCalls :
    LET m == ltdCalls[c].ic.ImageManifestSchema1
        n == Len(m.History)
    IN  AllDeserialize(m) =>
          /\ ReturnsAligned(ltdCalls[c], n)
          /\ \A i \in 1..n :
               ReachesScratch(ltdCalls[c].ret.images, ltdCalls[c].ret.images[i], n)

\* C10 as amended: for every schema-v1 manifest with N history entries that
\* all deserialize and N blob sums, LayersToDownload returns exactly N non-nil
\* records, record i aligned with manifest entry i; and when the manifest is a
\* chain and the layer cache agrees with it on the parents, following Parent
\* from any returned record reaches "scratch" in at most N hops.
C10_Amended ==
  \A c \in DOMAIN ltdCalls :
    LET m == ltdCalls[c].ic.ImageManifestSchema1
        n == Len(m.History)
    IN  (AllDeserialize(m) /\ Len(m.FSLayers) = n) =>
          /\ ReturnsAligned(ltdCalls[c], n)
          /\ (ProperChain(m) /\ CacheAgrees(m, layerCache)) =>
               \A i \in 1..n :
                 ReachesScratch(ltdCalls[c].ret.images, ltdCalls[c].ret.images[i], n)

\* C10 witness: a two-entry chain manifest, its root record taken from the
\* layer cache, returned as two records whose parents lead to "scratch".
C10_Witness ==
  /\ Len(ltdCalls) = 1
  /\ ltdCalls[1].ret.err = "" /\ ~ltdCalls[1].ret.panic
  /\ LET m == ltdCalls[1].ic.ImageManifestSchema1
         images == ltdCalls[1].ret.images
     IN  /\ Len(m.History) = 2 /\ Len(m.FSLayers) = 2
         /\ ProperChain(m) /\ CacheAgrees(m, layerCache)
         /\ ReturnsAligned(ltdCalls[1], 2)
         /\ Len(images) = 2
         /\ "idA" \in DOMAIN layerCache /\ images[2] = layerCache["idA"]
         /\ images[1].Parent = "idA" /\ images[2].Parent = "scratch"
         /\ ReachesScratch(images, images[1], 2)

\* ------------------------------------------------------- errors, nil
\* A Go error: nil, an error of one of urlfetcher's types, or an errorString
\* made by fmt.Errorf.
NilErr == [kind |-> "nil", msg |-> ""]

Errorf(msg) == [kind |-> "errorString", msg |-> msg]

\* The dynamic types an error of a collaborator can have.
ErrKinds == {"ImageNotFoundError", "TagNotFoundError", "errorString"}

CollabErr(kind) == [kind |-> kind, msg |-> "registry said no"]

\* A nil *Manifest / *schema2.DeserializedManifest / *urlfetcher.Token.
NilPtr == [nil |-> TRUE]

\* ------------------------------------------------------ ParseReference
\* DefaultDockerURL (line 134), reference.DefaultTag, reference.DefaultHostname
DefaultDockerURL == "registry-1.docker.io"
DefaultTag == "latest"
DefaultHostname == "docker.io"

\* The repository names, tags and digests the reference strings of the
\* model are made of, and what reference.ParseNamed makes of each name.
RefNames ==
  {"busybox", "reg.example.com:5000/app", "registry-1.docker.io/library/busybox",
   "myhost/app", "registry-1.docker.io/myhost/app"}
RefTags == {"latest", "v2"}
RefDigests == {"sha256:m1", "sha256:m2"}

\* splitHostname: the part before the first "/" is the host when it has a "."
\* or a ":" in it; otherwise the host is the default one, and a one-part
\* remote name of the default host is put under "library/".
NameParts(name) ==
  IF name = "busybox"
  THEN [Hostname |-> "docker.io", RemoteName |-> "library/busybox"]
  ELSE IF name = "myhost/app"
  THEN [Hostname |-> "docker.io", RemoteName |-> "myhost/app"]
  ELSE IF name = "registry-1.docker.io/library/busybox"
  THEN [Hostname |-> "registry-1.docker.io", RemoteName |-> "library/busybox"]
  ELSE IF name = "registry-1.docker.io/myhost/app"
  THEN [Hostname |-> "registry-1.docker.io", RemoteName |-> "myhost/app"]
  ELSE [Hostname |-> "reg.example.com:5000", RemoteName |-> "app"]

ParsedRef(name, tag, digest) ==
  [err |-> NilErr, Name |-> name, Hostname |-> NameParts(name).Hostname,
   RemoteName |-> NameParts(name).RemoteName, Tag |-> tag, Digest |-> digest]

\* reference.ParseNamed(str): the parsed reference of "name", "name:tag" or
\* "name@digest", or an error for a string that is no reference (such as
\* "name@" with no digest).
ParseNamed(str) ==
  IF \E n \in RefNames : str = n
  THEN ParsedRef(str, "", "")
  ELSE IF \E n \in RefNames, t \in RefTags : str = n \o ":" \o t
  THEN LET nt == CHOOSE nt \in RefNames \X RefTags : str = nt[1] \o ":" \o nt[2]
       IN  ParsedRef(nt[1], nt[2], "")
  ELSE IF \E n \in RefNames, d \in RefDigests : str = n \o "@" \o d
  THEN LET nd == CHOOSE nd \in RefNames \X RefDigests : str = nd[1] \o "@" \o nd[2]
       IN  ParsedRef(nd[1], "", nd[2])
  ELSE [err |-> Errorf("invalid reference format"), Name |-> "", Hostname |-> "",
        RemoteName |-> "", Tag |-> "", Digest |-> ""]

\* ref.String()
RefString(ref) ==
  ref.Name \o (IF ref.Tag # "" THEN ":" \o ref.Tag ELSE "")
           \o (IF ref.Digest # "" THEN "@" \o ref.Digest ELSE "")

\* reference.IsNameOnly(ref): neither tagged nor digested.
IsNameOnly(ref) == ref.Tag = "" /\ ref.Digest = ""

\* Lines 175-179 with the parsed host taken as the registry whatever it is.
ParseReferenceHostAsIs(c) ==
  LET ref == ParseNamed(c.Reference) IN
  IF ref.err # NilErr THEN [err |-> ref.err, ic |-> c]
  ELSE [err |-> NilErr,
        ic |-> [c EXCEPT
                  !.Tag = IF ~IsNameOnly(ref) /\ ref.Tag # "" THEN ref.Tag ELSE DefaultTag,
                  !.Registry = ref.Hostname,
                  !.Image = ref.RemoteName]]

\* ImageC.ParseReference(): the error and the receiver afterwards.
ParseReference(c) ==
  LET ref == ParseNamed(c.Reference) IN
  IF ref.err # NilErr THEN [err |-> ref.err, ic |-> c]
  ELSE [err |-> NilErr,
        ic |-> [c EXCEPT
                  !.Tag = IF ~IsNameOnly(ref) /\ ref.Tag # "" THEN ref.Tag ELSE DefaultTag,
                  !.Registry = IF ref.Hostname # DefaultHostname THEN ref.Hostname
                               ELSE DefaultDockerURL,
                  !.Image = ref.RemoteName]]

\* ------------------------------------------------------------ PullImage
\* NewImageC(options, ...): the receiver of a pull of reference ref.
NewImageC(ref) ==
  [Reference |-> ref, Registry |-> "", Image |-> "", Tag |-> "",
   Destination |-> "images", Host |-> "localhost:2377", Storename |-> "",
   Token |-> NilPtr, ImageManifestSchema1 |-> NilPtr, ImageManifestSchema2 |-> NilPtr,
   ManifestDigest |-> "", ImageLayers |-> <<>>, ImageID |-> EmptyID]

PullReferences == {"busybox", "reg.example.com:5000/app:v2", "Bad Reference"}

\* What the collaborators can answer.
UUIDOutcomes ==
  {[host |-> "", err |-> Errorf("no uuid")], [host |-> "", err |-> NilErr],
   [host |-> "uuid-1", err |-> NilErr]}

PingOutcomes ==
  {[ok |-> TRUE, err |-> NilErr], [ok |-> FALSE, err |-> NilErr],
   [ok |-> FALSE, err |-> Errorf("connection refused")]}

RegistryOutcomes ==
  {[registry |-> "", err |-> Errorf("registry unreachable")],
   [registry |-> "https://registry.example/v2", err |-> NilErr]}

AuthOutcomes ==
  {[url |-> "", err |-> CollabErr(k)] : k \in ErrKinds}
    \cup {[url |-> "", err |-> NilErr], [url |-> "https://auth.example/token", err |-> NilErr]}

DeadlineExceeded == Errorf("context deadline exceeded")

\* A call that is handed ctx answers with ctx's error once the deadline passed.
TokenOutcomes ==
  IF expired THEN {[token |-> NilPtr, err |-> DeadlineExceeded]}
  ELSE {[token |-> NilPtr, err |-> Errorf("401")],
        [token |-> [Token |-> "bearer"], err |-> NilErr]}

\* FetchImageManifest(ctx, options, 1, ...): an error, a value that is no
\* *Manifest, or a schema-v1 manifest with its digest.
Manifest1Outcomes ==
  IF expired THEN {[manifest |-> NilPtr, digest |-> "", err |-> DeadlineExceeded]}
  ELSE {[manifest |-> NilPtr, digest |-> "", err |-> CollabErr(k)] : k \in ErrKinds}
         \cup {[manifest |-> [other |-> TRUE], digest |-> "sha256:m0", err |-> NilErr]}
         \cup {[manifest |-> m, digest |-> "sha256:m1", err |-> NilErr] : m \in Manifests}

\* FetchImageManifest(ctx, options, 2, ...): an error, a value that is no
\* *schema2.DeserializedManifest, or a schema-v2 manifest with its digest.
Manifest2Outcomes ==
  IF expired THEN {[manifest |-> NilPtr, digest |-> "", err |-> DeadlineExceeded]}
  ELSE {[manifest |-> NilPtr, digest |-> "", err |-> CollabErr("errorString")],
        [manifest |-> [other |-> TRUE], digest |-> "sha256:m3", err |-> NilErr],
        [manifest |-> [SchemaVersion |-> 2], digest |-> "sha256:m2", err |-> NilErr]}

DownloadOutcomes ==
  IF expired THEN {DeadlineExceeded} ELSE {NilErr, Errorf("layer download failed")}

\* manifest.(*Manifest) and manifest.(*schema2.DeserializedManifest)
IsSchema1(manifest) == "History" \in DOMAIN manifest
IsSchema2(manifest) == "SchemaVersion" \in DOMAIN manifest

\* Lines 476-480 with the pull going on whatever the ping said.
AfterPingIgnored(out) == [returns |-> FALSE, err |-> NilErr]

\* Lines 476-480: whether PullImage returns after the ping, and with what.
AfterPing(out) ==
  IF out.err # NilErr \/ ~out.ok THEN [returns |-> TRUE, err |-> out.err]
  ELSE [returns |-> FALSE, err |-> NilErr]

\* Lines 491-499 with the cases of the type switch exchanged.
AfterAuthSwapped(c, out) ==
  IF out.err = NilErr THEN [returns |-> FALSE, err |-> NilErr]
  ELSE IF out.err.kind # "ImageNotFoundError"
  THEN [returns |-> TRUE, err |-> Errorf("Error: image " \o c.Reference \o " not found")]
  ELSE [returns |-> TRUE, err |-> Errorf("Failed to obtain OAuth endpoint: " \o out.err.msg)]

\* Lines 491-499: the type switch on the error of LearnAuthURL.
AfterAuth(c, out) ==
  IF out.err = NilErr THEN [returns |-> FALSE, err |-> NilErr]
  ELSE IF out.err.kind = "ImageNotFoundError"
  THEN [returns |-> TRUE, err |-> Errorf("Error: image " \o c.Reference \o " not found")]
  ELSE [returns |-> TRUE, err |-> Errorf("Failed to obtain OAuth endpoint: " \o out.err.msg)]

\* Lines 515-530: the type switch on the error of the schema-v1 fetch, and the
\* type assertion on the manifest.
AfterManifest1(c, out) ==
  IF out.err # NilErr
  THEN CASE out.err.kind = "ImageNotFoundError" ->
              [returns |-> TRUE, err |-> Errorf("Error: image " \o c.Image \o " not found")]
         [] out.err.kind = "TagNotFoundError" ->
              [returns |-> TRUE,
               err |-> Errorf("Tag " \o c.Tag \o " not found in repository " \o c.Image)]
         [] OTHER ->
              [returns |-> TRUE,
               err |-> Errorf("Error while pulling image manifest: " \o out.err.msg)]
  ELSE IF ~IsSchema1(out.manifest)
  THEN [returns |-> TRUE, err |-> Errorf("Error pulling manifest schema 1")]
  ELSE [returns |-> FALSE, err |-> NilErr]

\* Lines 535-543 with the digest taken whatever the fetch returned.
AfterManifest2Always(c, out) ==
  IF out.err = NilErr /\ IsSchema2(out.manifest)
  THEN [c EXCEPT !.ImageManifestSchema2 = out.manifest, !.ManifestDigest = out.digest]
  ELSE [c EXCEPT !.ManifestDigest = out.digest]

\* Lines 535-543: the receiver after the schema-v2 fetch.
AfterManifest2(c, out) ==
  IF out.err = NilErr /\ IsSchema2(out.manifest)
  THEN [c EXCEPT !.ImageManifestSchema2 = out.manifest, !.ManifestDigest = out.digest]
  ELSE c

\* "return err" / falling through to the next call.
PullReturn(err) ==
  /\ pc' = "done"
  /\ ret' = [returned |-> TRUE, err |-> err, panic |-> FALSE]

PullGoOn(next) == pc' = next /\ UNCHANGED ret

\* Bookkeeping: the phase that ran, whether its collaborator answered with a
\* failure, and the answer.
Logged(phase, failed, out) ==
  phaseLog' = Append(phaseLog, [phase |-> phase, failed |-> failed, out |-> out])

\* Bookkeeping: a network call, the context it was handed ("none" for a call
\* that takes no context) and whether it went out after the deadline.
NetCall(call, ctx) ==
  netLog' = Append(netLog, [call |-> call, ctx |-> ctx,
                            late |-> expired /\ ctx # "pull"])

InitPull ==
  /\ pc = "ParseReference"
  /\ pullIC \in {NewImageC(r) : r \in PullReferences}
  /\ url = ""
  /\ ret = [returned |-> FALSE, err |-> NilErr, panic |-> FALSE]
  /\ expired = FALSE
  /\ phaseLog = <<>>
  /\ netLog = <<>>
  /\ layerCache \in LayerCaches
  /\ ltdCalls = <<>>
  /\ repoLayers = <<>> /\ imageCache = <<>> /\ cfgCalls = <<>>
  /\ NoRepo /\ NoAux

\* The deadline of ctx (Options.Timeout from the top of PullImage) passes.
PullDeadline ==
  /\ pc \notin {"idle", "done"}
  /\ ~expired
  /\ expired' = TRUE
  /\ UNCHANGED <<pc, pullIC, url, ret, phaseLog, netLog>>
  /\ UNCHANGED <<cfgVars, ltdVars, repoVars, auxVars>>

\* Lines 455-459: ic.ParseReference()
PullParseReference ==
  /\ pc = "ParseReference"
  /\ LET r == ParseReference(pullIC) IN
       /\ Logged("resolve", r.err # NilErr, r.err)
       /\ pullIC' = r.ic
       /\ IF r.err # NilErr THEN PullReturn(r.err) ELSE PullGoOn("UUID")
  /\ UNCHANGED <<url, expired, netLog>>
  /\ UNCHANGED <<cfgVars, ltdVars, repoVars, auxVars>>

\* Lines 461-473: sys.UUID()
PullUUID ==
  /\ pc = "UUID"
  /\ \E out \in UUIDOutcomes :
       /\ Logged("host", out.err # NilErr, out)
       /\ IF out.err # NilErr
          THEN PullReturn(out.err) /\ UNCHANGED pullIC
          ELSE PullGoOn("Ping") /\ pullIC' = [pullIC EXCEPT !.Storename = out.host]
  /\ UNCHANGED <<url, expired, netLog>>
  /\ UNCHANGED <<cfgVars, ltdVars, repoVars, auxVars>>

\* Lines 475-480: PingPortLayer(ic.Host)
PullPing ==
  /\ pc = "Ping"
  /\ \E out \in PingOutcomes :
       /\ Logged("health", out.err # NilErr \/ ~out.ok, out)
       /\ IF AfterPing(out).returns
          THEN PullReturn(AfterPing(out).err)
          ELSE PullGoOn("LearnRegistryURL")
  /\ UNCHANGED <<pullIC, url, expired, netLog>>
  /\ UNCHANGED <<cfgVars, ltdVars, repoVars, auxVars>>

\* Lines 482-487: LearnRegistryURL(&ic.Options), a call that takes no context
PullLearnRegistryURL ==
  /\ pc = "LearnRegistryURL"
  /\ NetCall("LearnRegistryURL", "none")
  /\ \E out \in RegistryOutcomes :
       /\ Logged("registry", out.err # NilErr, out)
       /\ pullIC' = [pullIC EXCEPT !.Registry = out.registry]
       /\ IF out.err # NilErr THEN PullReturn(out.err) ELSE PullGoOn("LearnAuthURL")
  /\ UNCHANGED <<url, expired>>
  /\ UNCHANGED <<cfgVars, ltdVars, repoVars, auxVars>>

\* Lines 489-499: LearnAuthURL(ic.Options), a call that takes no context
PullLearnAuthURL ==
  /\ pc = "LearnAuthURL"
  /\ NetCall("LearnAuthURL", "none")
  /\ \E out \in AuthOutcomes :
       /\ Logged("auth", out.err # NilErr, out)
       /\ url' = out.url
       /\ IF AfterAuth(pullIC, out).returns
          THEN PullReturn(AfterAuth(pullIC, out).err)
          ELSE PullGoOn(IF out.url # "" THEN "FetchToken" ELSE "FetchManifest1")
  /\ UNCHANGED <<pullIC, expired>>
  /\ UNCHANGED <<cfgVars, ltdVars, repoVars, auxVars>>

\* Lines 501-509: FetchToken(ctx, ...), only with a URL
PullFetchToken ==
  /\ pc = "FetchToken"
  /\ NetCall("FetchToken", "pull")
  /\ \E out \in TokenOutcomes :
       /\ Logged("token", out.err # NilErr, out)
       /\ IF out.err # NilErr
          THEN PullReturn(out.err) /\ UNCHANGED pullIC
          ELSE PullGoOn("FetchManifest1") /\ pullIC' = [pullIC EXCEPT !.Token = out.token]
  /\ UNCHANGED <<url, expired>>
  /\ UNCHANGED <<cfgVars, ltdVars, repoVars, auxVars>>

\* Lines 513-533: FetchImageManifest(ctx, ic.Options, 1, ...)
PullFetchManifest1 ==
  /\ pc = "FetchManifest1"
  /\ NetCall("FetchImageManifest1", "pull")
  /\ \E out \in Manifest1Outcomes :
       /\ Logged("manifest1", out.err # NilErr \/ ~IsSchema1(out.manifest), out)
       /\ IF AfterManifest1(pullIC, out).returns
          THEN PullReturn(AfterManifest1(pullIC, out).err) /\ UNCHANGED pullIC
          ELSE /\ PullGoOn("FetchManifest2")
               /\ pullIC' = [pullIC EXCEPT !.ImageManifestSchema1 = out.manifest,
                                           !.ManifestDigest = out.digest]
  /\ UNCHANGED <<url, expired>>
  /\ UNCHANGED <<cfgVars, ltdVars, repoVars, auxVars>>

\* Lines 535-543: FetchImageManifest(ctx, ic.Options, 2, ...), best effort
PullFetchManifest2 ==
  /\ pc = "FetchManifest2"
  /\ NetCall("FetchImageManifest2", "pull")
  /\ \E out \in Manifest2Outcomes :
       /\ Logged("manifest2", out.err # NilErr \/ ~IsSchema2(out.manifest), out)
       /\ pullIC' = AfterManifest2(pullIC, out)
  /\ PullGoOn("LayersToDownload")
  /\ UNCHANGED <<url, expired>>
  /\ UNCHANGED <<cfgVars, ltdVars, repoVars, auxVars>>

\* Lines 545-549: ic.LayersToDownload()
PullLayersToDownload ==
  /\ pc = "LayersToDownload"
  /\ LET r == LayersToDownload(pullIC, layerCache) IN
       /\ Logged("layers", r.err # "" \/ r.panic, r)
       /\ IF r.panic
          THEN /\ pc' = "done"
               /\ ret' = [returned |-> FALSE, err |-> NilErr, panic |-> TRUE]
               /\ UNCHANGED pullIC
          ELSE IF r.err # ""
          THEN PullReturn(Errorf(r.err)) /\ UNCHANGED pullIC
          ELSE PullGoOn("DownloadLayers") /\ pullIC' = [pullIC EXCEPT !.ImageLayers = r.images]
  /\ UNCHANGED <<url, expired, netLog>>
  /\ UNCHANGED <<cfgVars, ltdVars, repoVars, auxVars>>

\* Lines 551-556: ldm.DownloadLayers(ctx, ic)
PullDownloadLayers ==
  /\ pc = "DownloadLayers"
  /\ NetCall("DownloadLayers", "pull")
  /\ \E err \in DownloadOutcomes :
       /\ Logged("download", err # NilErr, err)
       /\ PullReturn(err)
  /\ UNCHANGED <<pullIC, url, expired>>
  /\ UNCHANGED <<cfgVars, ltdVars, repoVars, auxVars>>

NextPull ==
  \/ PullDeadline
  \/ PullParseReference
  \/ PullUUID
  \/ PullPing
  \/ PullLearnRegistryURL
  \/ PullLearnAuthURL
  \/ PullFetchToken
  \/ PullFetchManifest1
  \/ PullFetchManifest2
  \/ PullLayersToDownload
  \/ PullDownloadLayers

SpecPull == InitPull /\ [][NextPull]_vars

\* The names of the phases run so far, in the order they ran.
PhasesRun == [i \in DOMAIN phaseLog |-> phaseLog[i].phase]

HasRun(phase) == \E i \in DOMAIN phaseLog : phaseLog[i].phase = phase

\* The answer the collaborator of a phase that has run gave.
AnswerOf(phase) == phaseLog[CHOOSE i \in DOMAIN phaseLog : phaseLog[i].phase = phase].out

\* C2: PullImage returns a non-nil error whenever the health-check ping
\* returned an error or reported the backend as not healthy (ok = false).
C2_FailedPingFailsPull ==
  (/\ pc = "done"
   /\ HasRun("health")
   /\ (AnswerOf("health").err # NilErr \/ ~AnswerOf("health").ok))
  => ret.err # NilErr

\* The fixed order of the phases, with or without the token fetch.
PhaseOrder(withToken) ==
  <<"resolve", "host", "health", "registry", "auth">>
    \o (IF withToken THEN <<"token">> ELSE <<>>)
    \o <<"manifest1", "manifest2", "layers", "download">>

\* A failure that ends the pull: any failed phase but the schema-v2 fetch.
TerminalFailure(entry) == entry.failed /\ entry.phase # "manifest2"

\* C3: the phases of a pull run in the fixed order resolve, host, health,
\* registry, auth, token (iff auth discovery returned an endpoint), manifest1,
\* manifest2, layers, download; each starts only after every earlier one has
\* finished without a terminal failure, none runs after the first terminal
\* failure, and none runs twice.
C3_PhasesInOrder ==
  /\ \E t \in BOOLEAN :
       /\ Len(phaseLog) <= Len(PhaseOrder(t))
       /\ PhasesRun = SubSeq(PhaseOrder(t), 1, Len(phaseLog))
  /\ \A i \in DOMAIN phaseLog : i < Len(phaseLog) => ~TerminalFailure(phaseLog[i])
  /\ Len(phaseLog) >= 6 => (phaseLog[6].phase = "token" <=> phaseLog[5].out.url # "")
  /\ (pc = "done" /\ ~ret.panic /\ ret.err = NilErr /\ ~phaseLog[Len(phaseLog)].failed)
       => phaseLog[Len(phaseLog)].phase = "download"

\* C3 witness: a pull that ran all ten phases, the token fetch included, and
\* returned nil.
C3_Witness ==
  /\ pc = "done" /\ ret.returned /\ ret.err = NilErr
  /\ PhasesRun = PhaseOrder(TRUE)
  /\ url # ""

\* C4: once the deadline of a pull has passed, none of its network calls
\* starts: each is handed the pull's cancellable context.
C4_NoCallPastDeadline ==
  \A i \in DOMAIN netLog : ~netLog[i].late

\* C5: a failure of the schema-v2 fetch never ends the pull and changes
\* nothing but the digest: from the start of the layer-graph phase on,
\* ManifestDigest is the schema-v2 digest if that fetch returned a schema-v2
\* manifest, and else the schema-v1 digest with ImageManifestSchema2 unset;
\* the layer graph is built from the schema-v1 manifest either way.
C5_Schema2BestEffort ==
  HasRun("manifest2") =>
    LET m1 == AnswerOf("manifest1")
        m2 == AnswerOf("manifest2")
    IN  /\ pc = "LayersToDownload" \/ HasRun("layers")
        /\ IF m2.err = NilErr /\ IsSchema2(m2.manifest)
           THEN /\ pullIC.ManifestDigest = m2.digest
                /\ pullIC.ImageManifestSchema2 = m2.manifest
           ELSE /\ pullIC.ManifestDigest = m1.digest
                /\ pullIC.ImageManifestSchema2 = NilPtr
        /\ pullIC.ImageManifestSchema1 = m1.manifest
        /\ pullIC.Token = (IF HasRun("token") THEN AnswerOf("token").token ELSE NilPtr)
        /\ HasRun("layers") =>
             AnswerOf("layers") =
               LayersToDownload([pullIC EXCEPT !.ImageManifestSchema1 = m1.manifest],
                                layerCache)

\* C5 witness: the schema-v2 fetch failed and the pull went on to download
\* layers built from the schema-v1 manifest, under the schema-v1 digest.
C5_Witness ==
  /\ HasRun("manifest2") /\ AnswerOf("manifest2").err # NilErr
  /\ HasRun("download") /\ ret.err = NilErr
  /\ pullIC.ManifestDigest = "sha256:m1"
  /\ Len(pullIC.ImageLayers) = 2

\* The messages that report an image as not found.
IsImageNotFound(err) ==
  err.msg \in {"Error: image " \o x \o " not found" : x \in {pullIC.Reference, pullIC.Image}}

\* C6: the error of a pull that failed in auth discovery or in the schema-v1
\* fetch is set by the phase and the kind of the collaborator's error:
\* ImageNotFound gives "image not found", TagNotFound from the manifest fetch
\* gives "Tag <tag> not found in repository <image>", anything else the
\* phase's generic error.
C6_ErrorByPhaseAndKind ==
  (pc = "done" /\ phaseLog # <<>>) =>
    LET last == phaseLog[Len(phaseLog)] IN
    /\ (last.phase = "auth" /\ last.out.err # NilErr) =>
         /\ last.out.err.kind = "ImageNotFoundError" <=> IsImageNotFound(ret.err)
         /\ last.out.err.kind # "ImageNotFoundError" =>
              ret.err = Errorf("Failed to obtain OAuth endpoint: " \o last.out.err.msg)
    /\ (last.phase = "manifest1" /\ last.out.err # NilErr) =>
         /\ last.out.err.kind = "ImageNotFoundError" <=> IsImageNotFound(ret.err)
         /\ last.out.err.kind = "TagNotFoundError" <=>
              ret.err = Errorf("Tag " \o pullIC.Tag \o " not found in repository "
                                 \o pullIC.Image)
         /\ last.out.err.kind \notin {"ImageNotFoundError", "TagNotFoundError"} =>
              ret.err = Errorf("Error while pulling image manifest: " \o last.out.err.msg)

\* C6 witness: the schema-v1 fetch answered TagNotFound and the pull returned
\* the tag-not-found message.
C6_Witness ==
  /\ pc = "done" /\ phaseLog # <<>>
  /\ phaseLog[Len(phaseLog)].phase = "manifest1"
  /\ phaseLog[Len(phaseLog)].out.err.kind = "TagNotFoundError"
  /\ ret.err = Errorf("Tag v2 not found in repository app")

\* ------------------------------------------------ updateRepositoryCache
\* repoCache.AddReference(ref, imageID, true, layerID, true): on success the
\* reference is bound to the image ID, the layer ID too, and both are saved;
\* a failure (ok = FALSE) returns an error and binds nothing.
AddReference(refs, layers, refStr, imageID, layerID, ok) ==
  IF ok
  THEN [refs |-> [k \in DOMAIN refs \cup {refStr} |->
                    IF k = refStr THEN imageID ELSE refs[k]],
        layers |-> [l \in DOMAIN layers \cup {layerID} |->
                      IF l = layerID THEN imageID ELSE layers[l]],
        err |-> NilErr]
  ELSE [refs |-> refs, layers |-> layers, err |-> Errorf("cannot add reference")]

\* The image ID a reference resolves to in the repository cache; none if unbound.
Resolve(refs, refStr) == IF refStr \in DOMAIN refs THEN refs[refStr] ELSE EmptyID

\* Lines 284-294 with the lookup made whether or not ic.ImageID is set.
UrcBeginAlwaysLooksUp(c, layers) ==
  LET imageLayerID == c.ImageLayers[1].ID
      ref == ParseNamed(c.Reference)
      id == GetImageID(layers, imageLayerID)
  IN  IF ref.err # NilErr
      THEN [returns |-> TRUE, looked |-> FALSE, ic |-> c,
            err |-> Errorf("Unable to parse reference: " \o ref.err.msg)]
      ELSE [returns |-> id = EmptyID, looked |-> TRUE, ic |-> [c EXCEPT !.ImageID = id],
            err |-> IF id = EmptyID
                    THEN Errorf("ImageID not found by LayerID(" \o imageLayerID
                                  \o ") in RepositoryCache")
                    ELSE NilErr]

\* Lines 274-294: parse the reference, and without an image ID ask the
\* repository cache for the one of ImageLayers[0].
UrcBegin(c, layers) ==
  LET imageLayerID == c.ImageLayers[1].ID
      ref == ParseNamed(c.Reference)
      id == GetImageID(layers, imageLayerID)
  IN  IF ref.err # NilErr
      THEN [returns |-> TRUE, looked |-> FALSE, ic |-> c,
            err |-> Errorf("Unable to parse reference: " \o ref.err.msg)]
      ELSE IF c.ImageID = EmptyID
      THEN [returns |-> id = EmptyID, looked |-> TRUE, ic |-> [c EXCEPT !.ImageID = id],
            err |-> IF id = EmptyID
                    THEN Errorf("ImageID not found by LayerID(" \o imageLayerID
                                  \o ") in RepositoryCache")
                    ELSE NilErr]
      ELSE [returns |-> FALSE, looked |-> FALSE, ic |-> c, err |-> NilErr]

\* Lines 295-299: bind the reference (repo:tag) to the image ID.
UrcAddTag(c, refs, layers, ok) ==
  LET ref == ParseNamed(c.Reference)
      r == AddReference(refs, layers, RefString(ref), c.ImageID, c.ImageLayers[1].ID, ok)
  IN  [refs |-> r.refs, layers |-> r.layers, step |-> "tag",
       err |-> IF r.err # NilErr
               THEN Errorf("Unable to Add Image Reference(" \o RefString(ref) \o "): "
                             \o r.err.msg)
               ELSE NilErr]

\* Lines 301-312 with the digest binding left out.
UrcAddDigestForgotten(c, refs, layers, ok) ==
  [refs |-> refs, layers |-> layers, step |-> "digest", err |-> NilErr]

\* Lines 301-312 made transactional: a failed digest step unbinds the tag.
UrcAddDigestRollback(c, refs, layers, ok) ==
  LET ref == ParseNamed(c.Reference)
      dig == ParseNamed(ref.Name \o "@" \o c.ManifestDigest)
      r == AddReference(refs, layers, RefString(dig), c.ImageID, c.ImageLayers[1].ID, ok)
      undone == [k \in DOMAIN refs \ {RefString(ref)} |-> refs[k]]
  IN  IF dig.err # NilErr
      THEN [refs |-> undone, layers |-> layers, step |-> "parse digest",
            err |-> Errorf("Unable to parse digest: " \o dig.err.msg)]
      ELSE [refs |-> IF r.err # NilErr THEN undone ELSE r.refs,
            layers |-> r.layers, step |-> "digest",
            err |-> IF r.err # NilErr
                    THEN Errorf("Unable to Add Image Digest(" \o RefString(dig) \o "): "
                                  \o r.err.msg)
                    ELSE NilErr]

\* Lines 301-312: parse name@digest and bind it to the image ID.
UrcAddDigest(c, refs, layers, ok) ==
  LET ref == ParseNamed(c.Reference)
      dig == ParseNamed(ref.Name \o "@" \o c.ManifestDigest)
      r == AddReference(refs, layers, RefString(dig), c.ImageID, c.ImageLayers[1].ID, ok)
  IN  IF dig.err # NilErr
      THEN [refs |-> refs, layers |-> layers, step |-> "parse digest",
            err |-> Errorf("Unable to parse digest: " \o dig.err.msg)]
      ELSE [refs |-> r.refs, layers |-> r.layers, step |-> "digest",
            err |-> IF r.err # NilErr
                    THEN Errorf("Unable to Add Image Digest(" \o RefString(dig) \o "): "
                                  \o r.err.msg)
                    ELSE NilErr]

\* ------------------------------------------------- SpecRepo: two pulls
Pulls == {"p1", "p2"}

\* Image IDs computed by earlier CreateImageConfig calls.
RepoImageID(n) == Sum256({<<"comment", n>>})

\* The *ImageC a pull hands to updateRepositoryCache.
RepoICs ==
  {[Reference |-> r, ImageID |-> id, ManifestDigest |-> d,
    ImageLayers |-> <<[ID |-> l]>>] :
     r \in {"busybox", "reg.example.com:5000/app:v2", "Bad Reference"},
     id \in {EmptyID, RepoImageID("one"), RepoImageID("two")},
     d \in {"", "sha256:m1", "sha256:m2"},
     l \in {"idA", "idB"}}

InitRepo ==
  /\ repoRefs = <<>>
  /\ repoLayers \in {<<>>, [l \in {"idA"} |-> RepoImageID("one")]}
  /\ urc \in [Pulls -> {[pc |-> "begin", ic |-> c, given |-> c.ImageID, err |-> NilErr,
                         steps |-> <<>>, lookups |-> 0, touched |-> FALSE] :
                          c \in RepoICs}]
  /\ imageCache = <<>> /\ cfgCalls = <<>> /\ layerCache = <<>> /\ ltdCalls = <<>>
  /\ NoPull /\ NoAux

\* The other pulls that are inside updateRepositoryCache, or were, see the
\* repository cache touched.
Touch(p, u) ==
  [q \in Pulls |-> IF q # p /\ u[q].pc # "begin" THEN [u[q] EXCEPT !.touched = TRUE]
                   ELSE u[q]]

\* Lines 272-294
URCBegin(p) ==
  /\ urc[p].pc = "begin"
  /\ LET r == UrcBegin(urc[p].ic, repoLayers) IN
       urc' = [urc EXCEPT ![p].pc = IF r.returns THEN "done" ELSE "tag",
                          ![p].ic = r.ic,
                          ![p].err = r.err,
                          ![p].lookups = @ + (IF r.looked THEN 1 ELSE 0)]
  /\ UNCHANGED <<repoRefs, repoLayers>>
  /\ UNCHANGED <<imageCache, cfgCalls, ltdVars, pullVars, auxVars>>

\* Lines 295-299
URCAddTag(p) ==
  /\ urc[p].pc = "tag"
  /\ \E ok \in BOOLEAN :
       LET r == UrcAddTag(urc[p].ic, repoRefs, repoLayers, ok)
           u == [urc EXCEPT ![p].pc = IF r.err # NilErr THEN "done" ELSE "digest",
                            ![p].err = r.err,
                            ![p].steps = Append(@, [step |-> r.step, ok |-> r.err = NilErr])]
       IN  /\ repoRefs' = r.refs
           /\ repoLayers' = r.layers
           /\ urc' = IF r.err = NilErr THEN Touch(p, u) ELSE u
  /\ UNCHANGED <<imageCache, cfgCalls, ltdVars, pullVars, auxVars>>

\* Lines 301-312
URCAddDigest(p) ==
  /\ urc[p].pc = "digest"
  /\ \E ok \in BOOLEAN :
       LET r == UrcAddDigest(urc[p].ic, repoRefs, repoLayers, ok)
           u == [urc EXCEPT ![p].pc = "done",
                            ![p].err = r.err,
                            ![p].steps = Append(@, [step |-> r.step, ok |-> r.err = NilErr])]
       IN  /\ repoRefs' = r.refs
           /\ repoLayers' = r.layers
           /\ urc' = IF r.err = NilErr /\ r.step = "digest" THEN Touch(p, u) ELSE u
  /\ UNCHANGED <<imageCache, cfgCalls, ltdVars, pullVars, auxVars>>

NextRepo ==
  \/ \E p \in Pulls : URCBegin(p)
  \/ \E p \in Pulls : URCAddTag(p)
  \/ \E p \in Pulls : URCAddDigest(p)

SpecRepo == InitRepo /\ [][NextRepo]_vars

\* The reference strings of pull p: the pulled one and name@ManifestDigest.
TagRefOf(p) == RefString(ParseNamed(urc[p].ic.Reference))
DigestRefOf(p) == ParseNamed(urc[p].ic.Reference).Name \o "@" \o urc[p].ic.ManifestDigest

\* C7: whenever updateRepositoryCache returns nil and no other pull has
\* touched the repository cache in between, the cache resolves the pulled
\* reference and the digest reference name@ManifestDigest to the same image
\* ID, which is ic.ImageID.
C7_BothResolve ==
  \A p \in Pulls :
    (urc[p].pc = "done" /\ urc[p].err = NilErr /\ ~urc[p].touched)
    => /\ urc[p].ic.ImageID # EmptyID
       /\ Resolve(repoRefs, TagRefOf(p)) = urc[p].ic.ImageID
       /\ Resolve(repoRefs, DigestRefOf(p)) = urc[p].ic.ImageID

\* C7 witness: a pull without an image ID of its own, whose ID came from the
\* repository cache, returned nil untouched with both references bound.
C7_Witness ==
  \E p \in Pulls :
    /\ urc[p].pc = "done" /\ urc[p].err = NilErr /\ ~urc[p].touched
    /\ urc[p].given = EmptyID /\ urc[p].lookups = 1
    /\ TagRefOf(p) = "reg.example.com:5000/app:v2"
    /\ Resolve(repoRefs, TagRefOf(p)) = urc[p].ic.ImageID
    /\ Resolve(repoRefs, DigestRefOf(p)) = urc[p].ic.ImageID

\* C8: updateRepositoryCache is not transactional and names the step that
\* failed: after the tag binding succeeded, a digest step that fails (the
\* digest reference does not parse, or its AddReference fails) returns the
\* digest step's error and leaves this call's tag binding in the cache; a tag
\* binding that fails returns the tag step's error and the digest step is
\* never attempted.
C8_NotTransactional ==
  \A p \in Pulls :
    urc[p].pc = "done" =>
      LET st == urc[p].steps
          tagErr == Errorf("Unable to Add Image Reference(" \o TagRefOf(p)
                             \o "): cannot add reference")
          parseErr == Errorf("Unable to parse digest: invalid reference format")
          digErr == Errorf("Unable to Add Image Digest(" \o DigestRefOf(p)
                             \o "): cannot add reference")
      IN  /\ (st # <<>> /\ ~st[1].ok) <=> urc[p].err = tagErr
          /\ urc[p].err = tagErr => Len(st) = 1
          /\ (Len(st) = 2 /\ ~st[2].ok) <=> urc[p].err \in {parseErr, digErr}
          /\ (Len(st) = 2 /\ ~st[2].ok) =>
               /\ st[1] = [step |-> "tag", ok |-> TRUE]
               /\ urc[p].err = (IF st[2].step = "parse digest" THEN parseErr ELSE digErr)
               /\ ~urc[p].touched =>
                    Resolve(repoRefs, TagRefOf(p)) = urc[p].ic.ImageID

\* C8 witness: each way the digest step fails after a tag binding, the tag
\* still bound; the other pull has failed in its tag binding.
C8_Witness ==
  \E p, q \in Pulls :
    /\ urc[p].pc = "done" /\ urc[q].pc = "done"
    /\ Len(urc[p].steps) = 2 /\ urc[p].steps[2] = [step |-> "digest", ok |-> FALSE]
    /\ ~urc[p].touched
    /\ Resolve(repoRefs, TagRefOf(p)) = urc[p].ic.ImageID
    /\ urc[p].ic.ImageID # EmptyID
    /\ Len(urc[q].steps) = 1 /\ ~urc[q].steps[1].ok

\* No AddReference of any pull has succeeded.
NothingBound == \A q \in Pulls : \A i \in DOMAIN urc[q].steps : ~urc[q].steps[i].ok

\* The lookup of pull p was made and found no image ID.
LookupFailed(p) ==
  urc[p].pc # "begin" /\ urc[p].lookups = 1 /\ urc[p].ic.ImageID = EmptyID

\* C9: updateRepositoryCache asks the repository cache for the image ID (by
\* the ID of ImageLayers[0]) only when ic.ImageID is empty; if the lookup
\* yields none either, it returns an error and attempts neither binding,
\* leaving the repository cache unchanged.
C9_LookupOnlyWithoutID ==
  \A p \in Pulls :
    /\ urc[p].lookups > 0 => urc[p].given = EmptyID
    /\ (urc[p].lookups = 1 /\ urc[p].ic.ImageID # EmptyID /\ ~urc[p].touched) =>
         GetImageID(repoLayers, urc[p].ic.ImageLayers[1].ID) = urc[p].ic.ImageID
    /\ LookupFailed(p) =>
         /\ urc[p].pc = "done"
         /\ urc[p].err = Errorf("ImageID not found by LayerID("
                                  \o urc[p].ic.ImageLayers[1].ID
                                  \o ") in RepositoryCache")
         /\ urc[p].steps = <<>>
         /\ NothingBound => repoRefs = <<>>

\* C9 witness: a pull with no image ID whose lookup found none has returned
\* the error, nothing bound.
C9_Witness ==
  \E p \in Pulls :
    /\ urc[p].given = EmptyID /\ LookupFailed(p)
    /\ urc[p].pc = "done" /\ urc[p].err # NilErr
    /\ urc[p].steps = <<>> /\ repoRefs = <<>>

\* ----------------------------------------------------------------- C11
\* The layers of a chain oldest first (images[0] is the newest layer).
OldestFirst(images) == [k \in 1..Len(images) |-> images[Len(images) + 1 - k]]

\* The invocations that computed a configuration.
Computed == {c \in DOMAIN cfgCalls : ~cfgCalls[c].ret.cached /\ cfgCalls[c].ret.err = ""}

\* C11: when CreateImageConfig computes a configuration, the history has one
\* entry per layer, oldest first, EmptyLayer is set exactly on the entries of
\* the layers whose DiffID is the empty-layer digest, and the root-filesystem
\* diff-ID list is the DiffIDs of the other layers in the same order.
C11_HistoryAndDiffIDs ==
  \A c \in Computed :
    LET layers == OldestFirst(cfgCalls[c].images)
        doc == cfgCalls[c].ret.hashed
        diffs == [k \in DOMAIN layers |-> layers[k].DiffID]
    IN  /\ Len(doc.History) = Len(layers)
        /\ cfgCalls[c].ret.config.History = doc.History
        /\ \A k \in DOMAIN layers :
             doc.History[k].EmptyLayer <=> (layers[k].DiffID = DigestSHA256EmptyTar)
        /\ doc.RootFS = SelectSeq(diffs, LAMBDA d : d # DigestSHA256EmptyTar)
        /\ Len(doc.RootFS) =
             Cardinality({k \in DOMAIN layers : layers[k].DiffID # DigestSHA256EmptyTar})

\* C11 witness: a two-layer chain whose top layer is empty and whose base is
\* not: a diff-ID list of length 1 and a history of length 2.
C11_Witness ==
  \E c \in Computed :
    /\ Len(cfgCalls[c].images) = 2
    /\ cfgCalls[c].images[1].DiffID = DigestSHA256EmptyTar
    /\ cfgCalls[c].images[2].DiffID # DigestSHA256EmptyTar
    /\ Len(cfgCalls[c].ret.hashed.RootFS) = 1
    /\ Len(cfgCalls[c].ret.hashed.History) = 2
    /\ cfgCalls[c].ret.hashed.History[2].EmptyLayer
    /\ ~cfgCalls[c].ret.hashed.History[1].EmptyLayer

\* ------------------------------------------------ DestinationDirectory
\* A text that is cut at "/", ":" and "://" is modelled as the sequence of its
\* pieces, the separators included: "https://reg.example.com/v2" is
\* <<"https", "://", "reg.example.com", "/", "v2">>.
\* The elements of a slash-separated text, the empty ones dropped.
Elements(text) == SelectSeq(text, LAMBDA t : t # "/")

\* url.Parse(rawurl): a text that starts with ":" has no protocol scheme and is
\* an error (the *URL returned is nil); "scheme://host/path" gives the three
\* parts; any other text is a relative path.
URLParse(rawurl) ==
  IF rawurl # <<>> /\ rawurl[1] = ":"
  THEN [nil |-> TRUE, Scheme |-> "", Host |-> "", Path |-> <<>>]
  ELSE IF Len(rawurl) >= 3 /\ rawurl[2] = "://"
  THEN [nil |-> FALSE, Scheme |-> rawurl[1], Host |-> rawurl[3],
        Path |-> SubSeq(rawurl, 4, Len(rawurl))]
  ELSE [nil |-> FALSE, Scheme |-> "", Host |-> "", Path |-> rawurl]

\* One string as a path element list: none for the empty string.
Elem(str) == IF str = "" THEN <<>> ELSE <<str>>

\* path.Join(elem...): the non-empty elements joined by "/" and cleaned, which
\* leaves the sequence of the names between the slashes.
PathJoin(elems) ==
  LET RECURSIVE Cat(_)
      Cat(es) == IF es = <<>> THEN <<>> ELSE Elements(Head(es)) \o Cat(Tail(es))
  IN  Cat(elems)

\* DestinationDirectory(options): u.Scheme on the nil *URL of a Registry that
\* does not parse is a nil-pointer panic.
DestinationDirectory(options) ==
  LET u == URLParse(options.Registry)
  IN  IF u.nil THEN [panic |-> TRUE, path |-> <<>>]
      ELSE [panic |-> FALSE,
            path |-> PathJoin(<<options.Destination, Elem(u.Scheme), Elem(u.Host),
                                u.Path, options.Image, Elem(options.Tag)>>)]

\* ------------------------------------- SpecDest: two invocations
\* most invocations of DestinationDirectory in one behaviour
MaxDestCalls == 2

DestRegistries ==
  {<<"https", "://", "reg.example.com", "/", "v2">>,
   <<"http", "://", "reg.example.com", "/", "v2">>,
   <<"https", "://", "reg.example.com", "/", "v2", "/", "library">>,
   <<"https", "://", "other.example.com", "/", "v2">>,
   <<"registry-1.docker.io">>,
   <<":", "5000">>}

DestOptions ==
  {[Destination |-> <<"images">>, Registry |-> r, Image |-> i, Tag |-> t] :
     r \in DestRegistries,
     i \in {<<"busybox">>, <<"library", "/", "busybox">>, <<"library", "/", "golang">>},
     t \in {"latest", "v2"}}

InitDest ==
  /\ destCalls = <<>>
  /\ repoLayers = <<>> /\ imageCache = <<>> /\ cfgCalls = <<>>
  /\ layerCache = <<>> /\ ltdCalls = <<>>
  /\ NoPull /\ NoRepo /\ NoBlob /\ NoLdm /\ refCalls = <<>>

DestInvoke ==
  /\ Len(destCalls) < MaxDestCalls
  /\ \E o \in DestOptions :
       destCalls' = Append(destCalls, [options |-> o, ret |-> DestinationDirectory(o)])
  /\ UNCHANGED <<cfgVars, ltdVars, pullVars, repoVars, blobVars, refCalls, ldmVars>>

NextDest == DestInvoke

SpecDest == InitDest /\ [][NextDest]_vars

\* The (scheme, registry host, repository path, image, tag) of an option set.
DestTuple(o) ==
  LET u == URLParse(o.Registry)
  IN  <<u.Scheme, u.Host, u.Path, o.Image, o.Tag>>

\* C12: DestinationDirectory is collision-free: two option sets that differ in
\* any component of (scheme, registry host, repository path, image, tag) never
\* yield the same path.
C12_CollisionFree ==
  \A p, q \in DOMAIN destCalls :
    (/\ ~destCalls[p].ret.panic /\ ~destCalls[q].ret.panic
     /\ DestTuple(destCalls[p].options) # DestTuple(destCalls[q].options))
    => destCalls[p].ret.path # destCalls[q].ret.path

\* ------------------------------------------------------ WriteImageBlob
\* os.RemoveAll(destination) taken as removing the layer's own directory only.
CleanupLayerOnly(dsk, destination, id) == dsk \ {<<destination, id>>}

\* Lines 351-355, os.RemoveAll(destination) when it succeeds: every tar under
\* the destination directory is gone, whichever layer it belongs to.
Cleanup(dsk, destination, id) == {f \in dsk : f[1] # destination}

\* Lines 344-347 with the download directory removed on the way out.
WriteFailedCleaning(dsk, destination, msg) ==
  [panic |-> FALSE, err |-> Errorf("Failed to write to image store: " \o msg),
   events |-> <<"Extracting">>, disk |-> {f \in dsk : f[1] # destination}]

\* Lines 344-347: WriteImage failed; the function returns its error.
WriteFailed(dsk, destination, msg) ==
  [panic |-> FALSE, err |-> Errorf("Failed to write to image store: " \o msg),
   events |-> <<"Extracting">>, disk |-> dsk]

\* What the operating system and the image store answer to one call: the
\* first step that fails ("none" if all succeed) and, for a RemoveAll that
\* fails, the layers whose tars it had removed by then.
BlobSteps == {"open", "stat", "write", "remove", "none"}

\* ic.WriteImageBlob(image, progressOutput, cleanup) on the disk dsk, where
\* out is the environment's answer.  events are the progress events emitted.
WriteImageBlob(ic, image, cleanup, dsk, out) ==
  LET d == DestinationDirectory(ic)
      destination == d.path
      id == image.ID
      quiet(e) == [panic |-> FALSE, err |-> e, events |-> <<>>, disk |-> dsk]
  IN  IF d.panic THEN [panic |-> TRUE, err |-> NilErr, events |-> <<>>, disk |-> dsk]
      ELSE IF <<destination, id>> \notin dsk
      THEN quiet(Errorf("Failed to open file: no such file or directory"))
      ELSE IF out.fails = "open"
      THEN quiet(Errorf("Failed to open file: permission denied"))
      ELSE IF out.fails = "stat"
      THEN quiet(Errorf("Failed to stat file: input/output error"))
      ELSE IF out.fails = "write"
      THEN WriteFailed(dsk, destination, "store error")
      ELSE IF ~cleanup
      THEN [panic |-> FALSE, err |-> NilErr,
            events |-> <<"Extracting", "Pull complete">>, disk |-> dsk]
      ELSE IF out.fails = "remove"
      THEN [panic |-> FALSE,
            err |-> Errorf("Failed to remove download directory: directory not empty"),
            events |-> <<"Extracting", "Pull complete">>,
            disk |-> {f \in dsk : ~(f[1] = destination /\ f[2] \in out.gone)}]
      ELSE [panic |-> FALSE, err |-> NilErr,
            events |-> <<"Extracting", "Pull complete">>,
            disk |-> Cleanup(dsk, destination, id)]

\* --------------------------- SpecBlob: downloads and WriteImageBlob calls
BlobLayerIDs == {"idA", "idB"}

\* The receivers: two pulls of one reference (they differ in Host only), a
\* pull of another tag, and one whose Registry does not parse.
BlobICs ==
  {[Destination |-> <<"images">>, Registry |-> r[1], Image |-> <<"library", "/", "busybox">>,
    Tag |-> r[2], Host |-> r[3]] :
     r \in {<<(<<"https", "://", "reg.example.com", "/", "v2">>), "latest", "h1">>,
            <<(<<"https", "://", "reg.example.com", "/", "v2">>), "latest", "h2">>,
            <<(<<"https", "://", "reg.example.com", "/", "v2">>), "v2", "h1">>,
            <<(<<":", "5000">>), "latest", "h1">>}}

\* The four options the destination directory is computed from.
Four(ic) == <<ic.Destination, ic.Registry, ic.Image, ic.Tag>>

\* The answers the environment can give to a call: only the steps the call
\* reaches can fail, and the open of a tar that is not there does fail.
BlobOuts(there, cleanup) ==
  IF ~there THEN {[fails |-> "open", gone |-> {}]}
  ELSE {[fails |-> f, gone |-> {}] : f \in BlobSteps \ {"remove"}}
         \cup (IF cleanup THEN {[fails |-> "remove", gone |-> g] : g \in {{}, {"idA"}}}
               ELSE {})

InitBlob ==
  /\ disk = {} /\ wiped = <<>>
  /\ blobLast = [kind |-> "none"]
  /\ destCalls = <<>> /\ refCalls = <<>> /\ NoLdm
  /\ repoLayers = <<>> /\ imageCache = <<>> /\ cfgCalls = <<>>
  /\ layerCache = <<>> /\ ltdCalls = <<>>
  /\ NoPull /\ NoRepo

\* The layer downloader stores the tar of a layer under the pull's destination
\* directory.
BlobDownload ==
  \E ic \in BlobICs, id \in BlobLayerIDs :
    LET d == DestinationDirectory(ic) IN
      /\ ~d.panic
      /\ disk' = disk \cup {<<d.path, id>>}
      /\ wiped' = [k \in DOMAIN wiped |->
                     IF k = Four(ic) THEN [wiped[k] EXCEPT !.since = @ \cup {id}]
                     ELSE wiped[k]]
      /\ blobLast' = [kind |-> "download", ic |-> ic, id |-> id]
      /\ UNCHANGED <<cfgVars, ltdVars, pullVars, repoVars, destCalls, refCalls, ldmVars>>

\* One call ic.WriteImageBlob(image, progressOutput, cleanup).
BlobWrite ==
  \E ic \in BlobICs, id \in BlobLayerIDs, cleanup \in BOOLEAN :
  \E out \in BlobOuts(<<DestinationDirectory(ic).path, id>> \in disk, cleanup) :
    LET r == WriteImageBlob(ic, [ID |-> id], cleanup, disk, out) IN
      /\ disk' = r.disk
      /\ wiped' = IF ~r.panic /\ r.err = NilErr /\ cleanup
                  THEN [k \in DOMAIN wiped \cup {Four(ic)} |->
                          IF k = Four(ic) THEN [host |-> ic.Host, id |-> id, since |-> {}]
                          ELSE wiped[k]]
                  ELSE wiped
      /\ blobLast' = [kind |-> "write", ic |-> ic, id |-> id, cleanup |-> cleanup,
                      out |-> out, ret |-> [panic |-> r.panic, err |-> r.err,
                                            events |-> r.events],
                      before |-> disk, wipedBefore |-> wiped]
      /\ UNCHANGED <<cfgVars, ltdVars, pullVars, repoVars, destCalls, refCalls, ldmVars>>

NextBlob == BlobDownload \/ BlobWrite

SpecBlob == InitBlob /\ [][NextBlob]_vars

\* The last step was a WriteImageBlob call that returned.
Wrote == blobLast.kind = "write" /\ ~blobLast.ret.panic

\* The tar of the call's layer was there to open.
TarThere == <<DestinationDirectory(blobLast.ic).path, blobLast.id>> \in blobLast.before

\* The store write of the last call was reached and succeeded.
StoreWritten == TarThere /\ blobLast.out.fails \in {"remove", "none"}

\* C13: WriteImageBlob removes the destination directory only when cleanup is
\* true and the store write has succeeded; whenever it cannot open or stat the
\* layer tar, or the store writer fails, it returns an error, emits no "Pull
\* complete" event and leaves the destination directory and its files as they
\* were.
C13_CleanupOnlyAfterSuccess ==
  Wrote =>
    /\ disk # blobLast.before => (blobLast.cleanup /\ StoreWritten)
    /\ ~StoreWritten =>
         /\ blobLast.ret.err # NilErr
         /\ \A i \in DOMAIN blobLast.ret.events : blobLast.ret.events[i] # "Pull complete"
         /\ disk = blobLast.before
    /\ (blobLast.ret.err = NilErr /\ blobLast.cleanup) =>
         \A f \in disk : f[1] # DestinationDirectory(blobLast.ic).path

\* C13 witness: with two tars in the directory, a call with cleanup = true
\* whose store write failed returned the error and left both in place.
C13_Witness ==
  /\ Wrote /\ blobLast.cleanup /\ TarThere /\ blobLast.out.fails = "write"
  /\ blobLast.ret.err = Errorf("Failed to write to image store: store error")
  /\ Cardinality({f \in disk : f[1] = DestinationDirectory(blobLast.ic).path}) = 2
  /\ disk = blobLast.before

\* C20: the directory WriteImageBlob reads from and removes depends only on
\* (Destination, Registry, Image, Tag): once a call with cleanup = true has
\* succeeded, every later call with the same four option values, for any
\* layer and from any pull, fails with the open-file error and changes
\* nothing, until that layer's tar has been downloaded again.
C20_FailsUntilDownloadedAgain ==
  (/\ Wrote
   /\ Four(blobLast.ic) \in DOMAIN blobLast.wipedBefore
   /\ blobLast.id \notin blobLast.wipedBefore[Four(blobLast.ic)].since)
  => /\ blobLast.ret.err = Errorf("Failed to open file: no such file or directory")
     /\ blobLast.ret.events = <<>>
     /\ disk = blobLast.before

\* C20 witness: one pull's call for layer idA removed the directory; the call
\* of another pull of the same reference for layer idB, whose tar was not
\* downloaded again, failed to open it while idA's tar was back.
C20_Witness ==
  /\ Wrote
  /\ Four(blobLast.ic) \in DOMAIN blobLast.wipedBefore
  /\ blobLast.wipedBefore[Four(blobLast.ic)] = [host |-> "h1", id |-> "idA", since |-> {"idA"}]
  /\ blobLast.ic.Host = "h2" /\ blobLast.id = "idB"
  /\ blobLast.ret.err = Errorf("Failed to open file: no such file or directory")
  /\ <<DestinationDirectory(blobLast.ic).path, "idA">> \in disk

\* ------------------------------- SpecRef: ParseReference on its own
\* most invocations of ParseReference in one behaviour
MaxRefCalls == 2

\* The reference strings handed to ParseReference: every name bare, tagged
\* and by digest, and two strings that are no reference.
RefStrings ==
  RefNames \cup {n \o ":" \o t : n \in RefNames, t \in RefTags}
           \cup {n \o "@" \o d : n \in RefNames, d \in RefDigests}
           \cup {"Bad Reference", "busybox@"}

\* A fresh receiver for the reference.
RefIC(reference) == [Reference |-> reference, Registry |-> "", Image |-> "", Tag |-> ""]

InitRef ==
  /\ refCalls = <<>> /\ destCalls = <<>> /\ NoBlob /\ NoLdm
  /\ repoLayers = <<>> /\ imageCache = <<>> /\ cfgCalls = <<>>
  /\ layerCache = <<>> /\ ltdCalls = <<>>
  /\ NoPull /\ NoRepo

RefInvoke ==
  /\ Len(refCalls) < MaxRefCalls
  /\ \E r \in RefStrings :
       refCalls' = Append(refCalls, [reference |-> r, ret |-> ParseReference(RefIC(r))])
  /\ UNCHANGED <<cfgVars, ltdVars, pullVars, repoVars, blobVars, destCalls, ldmVars>>

NextRef == RefInvoke

SpecRef == InitRef /\ [][NextRef]_vars

\* The resolved triple of a receiver, and the reference formed from it.
Triple(c) == <<c.Registry, c.Image, c.Tag>>
Formed(c) == c.Registry \o "/" \o c.Image \o ":" \o c.Tag

\* The calls that parsed a valid reference.
Parsed == {k \in DOMAIN refCalls : refCalls[k].ret.err = NilErr}

\* ParseReference is idempotent on its result: re-parsing the reference formed
\* from the resolved (Registry, Image, Tag) succeeds and yields the same triple.
Idempotent(k) ==
  LET again == ParseReference(RefIC(Formed(refCalls[k].ret.ic)))
  IN  again.err = NilErr /\ Triple(again.ic) = Triple(refCalls[k].ret.ic)

\* The tag is the default tag when the reference carries no tag.
DefaultsTag(k) ==
  ParseNamed(refCalls[k].reference).Tag = "" => refCalls[k].ret.ic.Tag = DefaultTag

\* C14 as stated: ParseReference is idempotent on its result, the registry is
\* the default registry exactly when the parsed host is the default-host
\* marker, and the tag is the default tag when the reference carries no tag.
C14_Original ==
  \A k \in Parsed :
    /\ Idempotent(k)
    /\ refCalls[k].ret.ic.Registry = DefaultDockerURL
         <=> ParseNamed(refCalls[k].reference).Hostname = DefaultHostname
    /\ DefaultsTag(k)

\* C14 amended: ParseReference is idempotent on its result, the registry is
\* the default registry when the parsed host is the default-host marker and is
\* the parsed host itself otherwise, and the tag is the default tag when the
\* reference carries no tag.
C14_Amended ==
  \A k \in Parsed :
    /\ Idempotent(k)
    /\ refCalls[k].ret.ic.Registry =
         (IF ParseNamed(refCalls[k].reference).Hostname = DefaultHostname
          THEN DefaultDockerURL
          ELSE ParseNamed(refCalls[k].reference).Hostname)
    /\ DefaultsTag(k)

\* C14 witness: a bare name of the default host and a reference by digest to
\* another registry were parsed, both resolved with the default tag.
C14_Witness ==
  /\ Len(refCalls) = 2
  /\ refCalls[1].reference = "busybox"
  /\ Triple(refCalls[1].ret.ic) = <<DefaultDockerURL, "library/busybox", DefaultTag>>
  /\ refCalls[2].reference = "reg.example.com:5000/app@sha256:m1"
  /\ Triple(refCalls[2].ret.ic) = <<"reg.example.com:5000", "app", DefaultTag>>
  /\ Idempotent(1) /\ Idempotent(2)

\* ------------------------------------------------- ldm.DownloadLayers
\* most fetches of one layer in one behaviour
MaxFetches == 2

\* A coordinator of its own for every pull, in place of the shared one.
CoordinatorPerPull(p) == p

\* Lines 128-130, 156-158 and 551: every pull calls DownloadLayers on ldm, the
\* one *LayerDownloader of the package, made once by init().
CoordinatorOf(p) == "ldm"

DlLayers == {"idA", "idB"}

\* The flight of layer l at coordinator c, if one is in the air.
FlightsOf(c, l) == {f \in flights : f.c = c /\ f.layer = l}

\* A pull that is not inside DownloadLayers.
DlIdle == [pc |-> "idle", via |-> "", wait |-> <<>>, got |-> <<>>]

InitLdm ==
  /\ flights = {} /\ stored = {}
  /\ fetchCount = [l \in DlLayers |-> 0]
  /\ dl = [p \in Pulls |-> DlIdle]
  /\ destCalls = <<>> /\ refCalls = <<>> /\ NoBlob
  /\ repoLayers = <<>> /\ imageCache = <<>> /\ cfgCalls = <<>>
  /\ layerCache = <<>> /\ ltdCalls = <<>>
  /\ NoPull /\ NoRepo

\* LayerDownloader.DownloadLayers(ctx, ic) is entered with the layers of the
\* pull: a layer already materialized is done, a layer in flight at the
\* coordinator is waited for, and any other layer gets a fetch of its own.
DLRequest(p) ==
  /\ dl[p].pc = "idle"
  /\ \E want \in SUBSET DlLayers \ {{}} :
       LET c == CoordinatorOf(p)
           fresh == {l \in want \ stored : FlightsOf(c, l) = {}}
           no(l) == IF l \in fresh THEN fetchCount[l] + 1
                    ELSE (CHOOSE f \in FlightsOf(c, l) : TRUE).no
       IN  /\ \A l \in fresh : fetchCount[l] < MaxFetches
           /\ flights' = flights \cup {[c |-> c, layer |-> l, no |-> no(l)] : l \in fresh}
           /\ fetchCount' = [l \in DlLayers |-> IF l \in fresh THEN fetchCount[l] + 1
                                                ELSE fetchCount[l]]
           /\ dl' = [dl EXCEPT ![p] =
                       [pc |-> "waiting", via |-> c,
                        wait |-> [l \in want \ stored |-> no(l)],
                        got |-> [l \in want \cap stored |-> [no |-> 0, ok |-> TRUE]]]]
  /\ UNCHANGED stored
  /\ UNCHANGED <<cfgVars, ltdVars, pullVars, repoVars, blobVars, destCalls, refCalls>>

\* A fetch ends, well or badly: every caller waiting on it observes its result,
\* and a layer fetched well is materialized.
DLFinish ==
  \E f \in flights, ok \in BOOLEAN :
    /\ flights' = flights \ {f}
    /\ stored' = IF ok THEN stored \cup {f.layer} ELSE stored
    /\ dl' = [p \in Pulls |->
                IF /\ dl[p].pc = "waiting" /\ dl[p].via = f.c
                   /\ f.layer \in DOMAIN dl[p].wait /\ dl[p].wait[f.layer] = f.no
                THEN [dl[p] EXCEPT
                        !.wait = [l \in DOMAIN dl[p].wait \ {f.layer} |-> dl[p].wait[l]],
                        !.got = [l \in DOMAIN dl[p].got \cup {f.layer} |->
                                   IF l = f.layer THEN [no |-> f.no, ok |-> ok]
                                   ELSE dl[p].got[l]]]
                ELSE dl[p]]
    /\ UNCHANGED fetchCount
    /\ UNCHANGED <<cfgVars, ltdVars, pullVars, repoVars, blobVars, destCalls, refCalls>>

\* Lines 551-556: DownloadLayers returns, with an error on the first layer that
\* failed or with nil once every layer is there.
DLReturn(p) ==
  /\ dl[p].pc = "waiting"
  /\ \/ DOMAIN dl[p].wait = {}
     \/ \E l \in DOMAIN dl[p].got : ~dl[p].got[l].ok
  /\ dl' = [dl EXCEPT ![p].pc = "returned", ![p].wait = <<>>]
  /\ UNCHANGED <<flights, fetchCount, stored>>
  /\ UNCHANGED <<cfgVars, ltdVars, pullVars, repoVars, blobVars, destCalls, refCalls>>

\* The pull is over; the process may start another one.
DLAgain(p) ==
  /\ dl[p].pc = "returned"
  /\ dl' = [dl EXCEPT ![p] = DlIdle]
  /\ UNCHANGED <<flights, fetchCount, stored>>
  /\ UNCHANGED <<cfgVars, ltdVars, pullVars, repoVars, blobVars, destCalls, refCalls>>

NextLdm ==
  \/ \E p \in Pulls : DLRequest(p)
  \/ DLFinish
  \/ \E p \in Pulls : DLReturn(p)
  \/ \E p \in Pulls : DLAgain(p)

SpecLdm == InitLdm /\ [][NextLdm]_vars

\* The pulls inside DownloadLayers.
Downloading == {p \in Pulls : dl[p].pc # "idle"}

ReturnsNil(p) == urc[p].pc # "done" /\ urc'[p].pc = "done" /\ urc'[p].err = NilErr

\* C16: at the moment updateRepositoryCache returns nil for a pull, the
\* repository cache resolves that pull's tag reference and its digest
\* reference to the same image ID, under every interleaving with the
\* updateRepositoryCache calls of other pulls.
C16_SameIDAtReturn ==
  [][\A p \in Pulls :
       ReturnsNil(p) =>
         Resolve(repoRefs', TagRefOf(p)) = Resolve(repoRefs', DigestRefOf(p))]_vars

\* ------------------------------------------------------- C17 and C18
\* What a history document states on its own for a field: "" when the key is
\* absent.
Own(meta, f) == IF meta.doc[f] = <<>> THEN ZeroV1[f] ELSE meta.doc[f][1]

\* The invocations of LayersToDownload that returned a slice.
Listed == {c \in DOMAIN ltdCalls : ~ltdCalls[c].ret.panic /\ ltdCalls[c].ret.err = ""}

\* The record entry i alone gives rise to.
FreshOf(ic, i) ==
  LET h == ic.ImageManifestSchema1.History[i] IN
  [ID |-> Own(h, "id"),
   Parent |-> IF Own(h, "parent") = "" THEN "scratch" ELSE Own(h, "parent"),
   Store |-> ic.Storename, DiffID |-> "", Layer |-> ic.ImageManifestSchema1.FSLayers[i],
   Meta |-> h, Size |-> 0, Downloading |-> FALSE]

\* Record i of the call was built by the call, not taken from the layer cache.
IsFresh(call, i) ==
  /\ call.ret.images[i].Meta = call.ic.ImageManifestSchema1.History[i]
  /\ call.ret.images[i].Layer = call.ic.ImageManifestSchema1.FSLayers[i]
  /\ call.ret.images[i].Store = call.ic.Storename

\* C18: each freshly built record's ID and Parent are those of that manifest
\* entry's own history document: Parent is "scratch" exactly when the entry's
\* own parent field is empty or absent, whatever the older entries decoded
\* before it contain.
C18_OwnIDAndParent ==
  \A c \in Listed : \A i \in DOMAIN ltdCalls[c].ret.images :
    IsFresh(ltdCalls[c], i) =>
      /\ ltdCalls[c].ret.images[i].ID = FreshOf(ltdCalls[c].ic, i).ID
      /\ ltdCalls[c].ret.images[i].Parent = FreshOf(ltdCalls[c].ic, i).Parent

\* C17: for each manifest entry, LayersToDownload returns the layer-cache
\* record stored under the entry's local image ID exactly when the cache holds
\* one that is not mid-download, and otherwise a fresh record carrying the
\* entry's ID, parent, serialized config, blob descriptor and the pull's store
\* name.
C17_CacheOrFresh ==
  \A c \in Listed : \A i \in DOMAIN ltdCalls[c].ret.images :
    LET id == Own(ltdCalls[c].ic.ImageManifestSchema1.History[i], "id")
        hit == id \in DOMAIN layerCache /\ ~layerCache[id].Downloading
    IN  ltdCalls[c].ret.images[i] =
          (IF hit THEN layerCache[id] ELSE FreshOf(ltdCalls[c].ic, i))

\* ----------------------------------------------------------------- C19
\* The top-level fields of the hashed document that come from a layer.
TopFields ==
  {"comment", "created", "container", "container_config", "docker_version",
   "author", "config", "architecture", "os"}

\* C19: in the document CreateImageConfig hashes, every history entry's
\* created, author, command and comment are those of that layer's own
\* configuration, and the top-level fields are those of the topmost layer's
\* own configuration: a field a layer's configuration omits is empty, never a
\* value carried over from an older layer.
C19_OwnFieldsOnly ==
  \A c \in Computed :
    LET layers == OldestFirst(cfgCalls[c].images)
        doc == cfgCalls[c].ret.hashed
        top == cfgCalls[c].images[1].Meta
    IN  /\ \A k \in DOMAIN layers :
             /\ doc.History[k].Created = Own(layers[k].Meta, "created")
             /\ doc.History[k].Author = Own(layers[k].Meta, "author")
             /\ doc.History[k].CreatedBy = Join(Own(layers[k].Meta, "container_config"))
             /\ doc.History[k].Comment = Own(layers[k].Meta, "comment")
        /\ \A f \in TopFields : doc.V1Image[f] = Own(top, f)

====
